---- MODULE Spec2Model ----
(***************************************************************************)
(* A model of the wso VM fleet autoscaler daemon (src/wso/server.py).      *)
(*                                                                         *)
(* The daemon is one asyncio event loop.  A task runs without interruption *)
(* between two awaits, so every action below is the code between two       *)
(* suspension points of one coroutine.  Domain objects are shared by       *)
(* reference between the fleet dictionary and the tasks that were handed   *)
(* them: `dom` holds the objects, `domains` the keys of the dictionary.    *)
(*                                                                         *)
(* The hypervisor is src/wso/management.py seen through its effects: a     *)
(* network and a set of running domains.  server.py calls launch_domain    *)
(* with the keyword iso_path where management.py declares image_path, and  *)
(* imports configure_domain, which management.py does not define: the      *)
(* model takes the launch call as binding its arguments, and takes from    *)
(* the specification that a configure attempt either succeeds or raises.   *)
(***************************************************************************)
EXTENDS Integers, Sequences, FiniteSets, TLC

\* ---------------------------------------------------------------- bounds
\* Number of Domain objects the reconciler may create in one run.
MaxDomains == 3
\* Largest N of the valid `scale N` commands the operator sends in Spec.
MaxDesired == 2
\* Last address suffix of the pool the model draws from (254 in the code).
MaxIpSuffix == 3
\* Number of operations the environment makes fail in one run.
MaxFailures == 1
\* Largest N of the `scale N` messages of the message runs.
MaxScaleArg == 102
\* Longest bridge name handed to the network creation in the network runs.
MaxNameLen == 20

\* The settings config.py reads from the environment, below their defaults
\* (3, 3 and 5).
HEALTHCHECK_HEALTHY_THRESHOLD == 2
HEALTHCHECK_UNHEALTHY_THRESHOLD == 2
CONFIGURATION_RETRIES == 1

\* ----------------------------------------------------- program constants
MIN_SCALE == 1
MAX_SCALE == 100
InitialDesired == 2
MinIpSuffix == 2
MaxBridgeLen == 15

Names == 1..MaxDomains
IpSuffixes == MinIpSuffix..MaxIpSuffix

LAUNCHING == "LAUNCHING"
HEALTHCHECK_INITIALIZING == "HEALTHCHECK_INITIALIZING"
HEALTHY == "HEALTHY"
UNHEALTHY == "UNHEALTHY"
TERMINATING == "TERMINATING"
DomainState == {LAUNCHING, HEALTHCHECK_INITIALIZING, HEALTHY, UNHEALTHY, TERMINATING}

VARIABLES
  domains,            \* keys of _state["hypervisors"][url]["domains"]
  dom,                \* the Domain object of every name (shared by reference)
  created,            \* number of Domain objects constructed so far
  desired,            \* _desired_num_vms
  state_changed,      \* the asyncio.Event _state_changed
  healthcheck_tasks,  \* keys of _healthcheck_tasks
  hc,                 \* the _healthcheck_task of every name
  start,              \* the _start_domain_task of every name
  conf,               \* the _configure_domain_task of every name
  tries,              \* failed configure attempts of every name
  destroying,         \* number of _destroy_domain_task awaiting the hypervisor, per name
  spawned,            \* tasks created by create_task that have not run yet (FIFO)
  probed,             \* names whose healthcheck task ran since the reconciler was woken
  hv,                 \* names of the domains alive in the hypervisor
  network,            \* "absent" | "present": the NAT network wso-net
  phase,              \* "serving" | "cleanup" | "done" | "failed"
  cleanup,            \* state of the tasks gathered by _cleanup
  reply,              \* what handle_msg wrote for the last message
  max_desired,        \* history: the largest desired size so far
  failures            \* history: number of operations that failed so far

vars == <<domains, dom, created, desired, state_changed, healthcheck_tasks, hc, start,
          conf, tries, destroying, spawned, probed, hv, network, phase, cleanup,
          reply, max_desired, failures>>

fleetVars == <<domains, dom, created, healthcheck_tasks, hc, start, conf, tries,
               destroying, spawned, probed, hv, network, phase, cleanup>>

\* ------------------------------------------------ control messages
\* A message is the sequence of the characters of data.decode().
SCALE_PREFIX == <<"s", "c", "a", "l", "e", " ">>
STATE_CMD == <<"s", "t", "a", "t", "e">>
Whitespace == {" ", "\n", "\t"}
Digits == <<"0", "1", "2", "3", "4", "5", "6", "7", "8", "9">>
DecimalChars == {Digits[i] : i \in 1..10}
\* Characters str.isnumeric() accepts and int() rejects (SUPERSCRIPT TWO).
NumericOnlyChars == {"U+00B2"}

DigitVal(c) == (CHOOSE i \in 1..10 : Digits[i] = c) - 1

RECURSIVE LStrip(_)
LStrip(s) == IF s # <<>> /\ Head(s) \in Whitespace THEN LStrip(Tail(s)) ELSE s

RECURSIVE RStrip(_)
RStrip(s) ==
  IF s # <<>> /\ s[Len(s)] \in Whitespace THEN RStrip(SubSeq(s, 1, Len(s) - 1)) ELSE s

\* str.strip()
Strip(s) == RStrip(LStrip(s))

\* A prefix test that forgets the last character of the prefix.
StartsWithWord(s, p) ==
  Len(s) >= Len(p) - 1 /\ SubSeq(s, 1, Len(p) - 1) = SubSeq(p, 1, Len(p) - 1)

\* str.startswith(p)
StartsWith(s, p) == Len(s) >= Len(p) /\ SubSeq(s, 1, Len(p)) = p

\* Length of the longest prefix of s without whitespace.
RECURSIVE WordLen(_)
WordLen(s) == IF s = <<>> \/ Head(s) \in Whitespace THEN 0 ELSE 1 + WordLen(Tail(s))

\* str.split(): the maximal runs of non-whitespace characters, in order.
RECURSIVE Split(_)
Split(s) ==
  LET t == LStrip(s) IN
  IF t = <<>> THEN <<>>
  ELSE <<SubSeq(t, 1, WordLen(t))>> \o Split(SubSeq(t, WordLen(t) + 1, Len(t)))

\* str.isnumeric()
IsNumeric(w) == w # <<>> /\ \A i \in 1..Len(w) : w[i] \in DecimalChars \cup NumericOnlyChars

\* int(w) raises ValueError unless every character is a decimal digit.
IntParses(w) == w # <<>> /\ \A i \in 1..Len(w) : w[i] \in DecimalChars

RECURSIVE ToInt(_)
ToInt(w) ==
  IF w = <<>> THEN 0 ELSE 10 * ToInt(SubSeq(w, 1, Len(w) - 1)) + DigitVal(w[Len(w)])

NoReply == [msg |-> <<>>, status |-> "NONE", body |-> "none", n |-> 0, closed |-> FALSE]

\* The handler died with an exception: nothing was written, the writer not closed.
Raised(message, exc) ==
  [msg |-> message, status |-> "NONE", body |-> exc, n |-> 0, closed |-> FALSE]

Written(message, st, b, k) ==
  [msg |-> message, status |-> st, body |-> b, n |-> k, closed |-> TRUE]

\* A range check with the upper limit excluded.
ScaleBelowMax(k) == MIN_SCALE <= k /\ k < MAX_SCALE

\* A range check without the lower limit.
ScaleAtMostMax(k) == k <= MAX_SCALE

\* The accepted range of `scale N`.
ScaleInRange(k) == MIN_SCALE <= k /\ k <= MAX_SCALE

\* What handle_msg does with one message: the new desired size, whether it sets
\* the change signal, and what it writes.
HandleMsgResult(message, d) ==
  IF Strip(message) = STATE_CMD
  THEN [desired |-> d, set |-> FALSE, reply |-> Written(message, "OK", "state_json", 0)]
  ELSE IF StartsWith(message, SCALE_PREFIX)
  THEN
    IF Len(Split(message)) < 2
    THEN [desired |-> d, set |-> FALSE, reply |-> Raised(message, "IndexError")]
    ELSE
      LET n_vms_str == Split(message)[2] IN
      IF ~IsNumeric(n_vms_str)
      THEN [desired |-> d, set |-> FALSE,
            reply |-> Written(message, "ERROR", "Expected integer <1,100>", 0)]
      ELSE IF ~IntParses(n_vms_str)
      THEN [desired |-> d, set |-> FALSE, reply |-> Raised(message, "ValueError")]
      ELSE IF ~ScaleInRange(ToInt(n_vms_str))
      THEN [desired |-> d, set |-> FALSE,
            reply |-> Written(message, "ERROR", "Expected integer <1,100>", 0)]
      ELSE [desired |-> ToInt(n_vms_str), set |-> TRUE,
            reply |-> Written(message, "OK", "Scale to", ToInt(n_vms_str))]
  ELSE [desired |-> d, set |-> FALSE, reply |-> Written(message, "ERROR", "Unknown command", 0)]

\* A handler that trims the fleet itself when the size it is given is smaller.
HandleMsgTrimming(message) ==
  /\ phase = "serving"
  /\ desired' = HandleMsgResult(message, desired).desired
  /\ state_changed' = (state_changed \/ HandleMsgResult(message, desired).set)
  /\ max_desired' = IF desired' > max_desired THEN desired' ELSE max_desired
  /\ domains' = IF Cardinality(domains) > desired' THEN {} ELSE domains
  /\ UNCHANGED <<dom, created, healthcheck_tasks, hc, start, conf, tries, destroying,
                 spawned, probed, hv, network, phase, cleanup, failures>>

\* What handle_msg does to the server: the desired size and the change signal.
HandleMsgEffect(message) ==
  /\ phase = "serving"
  /\ desired' = HandleMsgResult(message, desired).desired
  /\ state_changed' = (state_changed \/ HandleMsgResult(message, desired).set)
  /\ max_desired' = IF desired' > max_desired THEN desired' ELSE max_desired
  /\ UNCHANGED <<fleetVars, failures>>

\* handle_msg: one accepted connection, from the read to the close, with the
\* response the client receives.
HandleMsg(message) ==
  /\ HandleMsgEffect(message)
  /\ reply' = HandleMsgResult(message, desired).reply

\* handle_msg seen from the fleet: the response is not recorded.
ServeMsg(message) ==
  /\ HandleMsgEffect(message)
  /\ UNCHANGED reply

\* ------------------------------------------------ messages of the runs
Scale(arg) == SCALE_PREFIX \o arg

\* The decimal numeral of k, 0 <= k <= 999, without leading zeros.
Numeral(k) ==
  IF k < 10 THEN <<Digits[k + 1]>>
  ELSE IF k < 100 THEN <<Digits[(k \div 10) + 1], Digits[(k % 10) + 1]>>
  ELSE <<Digits[(k \div 100) + 1], Digits[((k \div 10) % 10) + 1], Digits[(k % 10) + 1]>>

FROBNICATE == <<"f", "r", "o", "b", "n", "i", "c", "a", "t", "e">>

\* Messages of the daemon runs: every valid size up to MaxDesired, one refused
\* size, the state query and an unknown command.
ControlMsgs ==
  {Scale(Numeral(k)) : k \in 1..MaxDesired} \cup {Scale(<<"0">>), STATE_CMD, FROBNICATE}

\* Arguments of `scale ` that are not a size: nothing, blanks, words, signed and
\* fractional numbers, a numeric character that is no digit, two sizes, zeros.
OddArgs ==
  { <<>>, <<" ">>, <<"\n">>, <<"x">>, <<"-", "1">>, <<"1", ".", "5">>, <<"U+00B2">>,
    <<"1", "U+00B2">>, <<"1", " ", "2">>, <<"x", " ", "1">>, <<" ", "2">>, <<"2", "\n">>,
    <<"0", "0", "7">>, <<"0", "0", "0">>, <<"1", "0", "0", "0">> }

\* Messages of the message runs.
Messages ==
  {Scale(Numeral(k)) : k \in 0..MaxScaleArg} \cup {Scale(a) : a \in OddArgs}
  \cup { STATE_CMD, <<" ">> \o STATE_CMD \o <<"\n">>, STATE_CMD \o <<" ", "x">>,
         FROBNICATE, <<>>, <<"s", "c", "a", "l", "e">>, <<"S", "C", "A", "L", "E", " ", "3">>,
         <<" ">> \o Scale(<<"3">>) }

\* ------------------------------------------------------- the fleet
\* ever_healthy and streak are history, not fields of Domain: the record has
\* been HEALTHY, and the run of equal results its latest probes ended with
\* (k > 0: the last k probes succeeded, k < 0: the last -k probes failed).
NoDomain ==
  [state |-> "NONE", bridge_name |-> <<>>, ip_address |-> 0, n_success_healthchecks |-> 0,
   n_failed_healthchecks |-> 0, started_at |-> FALSE, ever_healthy |-> FALSE,
   streak |-> 0]

\* A bridge name made of the network name and the id of the domain.
BridgePerDomain ==
  <<"w", "s", "o", "-", "v", "i", "r", "b", "r", "-", "0", "0", "0", "0", "0", "0", "0", "0">>

\* bridge_name of every Domain.
BRIDGE_NAME == <<"w", "s", "o", "-", "v", "i", "r", "b", "r">>

\* Domain.__init__ (started_at: FALSE is None, TRUE a timestamp).
NewDomain(ip) ==
  [state |-> LAUNCHING, bridge_name |-> BRIDGE_NAME, ip_address |-> ip,
   n_success_healthchecks |-> 0, n_failed_healthchecks |-> 0, started_at |-> FALSE,
   ever_healthy |-> FALSE, streak |-> 0]

\* _generate_static_ip: random.randint(2, 254), unrelated to the fleet.
GenerateStaticIp == IpSuffixes

RECURSIVE SetToSeq(_)
SetToSeq(S) ==
  IF S = {} THEN <<>>
  ELSE LET m == CHOOSE x \in S : \A y \in S : x <= y IN <<m>> \o SetToSeq(S \ {m})

Task(kind, n) == [task |-> kind, name |-> n]

NoTasks == [n \in Names |-> "none"]

\* The fleet and the tasks after Server.__init__.
InitFleet ==
  /\ domains = {}
  /\ dom = [n \in Names |-> NoDomain]
  /\ created = 0
  /\ healthcheck_tasks = {}
  /\ hc = NoTasks
  /\ start = NoTasks
  /\ conf = NoTasks
  /\ tries = [n \in Names |-> 0]
  /\ destroying = [n \in Names |-> 0]
  /\ spawned = <<>>
  /\ probed = {}
  /\ hv = {}
  /\ network = "absent"
  /\ phase = "serving"
  /\ cleanup = [destroy |-> {}, net |-> "none"]

Init ==
  /\ InitFleet
  /\ desired = InitialDesired
  /\ max_desired = InitialDesired
  /\ state_changed = TRUE
  /\ reply = NoReply
  /\ failures = 0

\* ------------------------------------------------------ the reconciler
UnhealthyDomains == {n \in domains : dom[n].state = UNHEALTHY}

\* The running states without the records whose launch has not returned.
StartedStates == {HEALTHY, HEALTHCHECK_INITIALIZING}

\* The running states with the records that wait for their destroy task.
LiveStates == {LAUNCHING, HEALTHY, HEALTHCHECK_INITIALIZING, UNHEALTHY}

\* The running states with the records whose destroy task has begun.
StatesNotReaped == {LAUNCHING, HEALTHY, HEALTHCHECK_INITIALIZING, TERMINATING}

RunningStates == {LAUNCHING, HEALTHY, HEALTHCHECK_INITIALIZING}

RunningDomains == {n \in domains : dom[n].state \in RunningStates}

\* The healthy domains with those still waiting for their first probes.
HealthyOrInitializing ==
  {n \in domains : dom[n].state \in {HEALTHY, HEALTHCHECK_INITIALIZING}}

HealthyDomains == {n \in domains : dom[n].state = HEALTHY}

DestroyTasks(S) == [i \in 1..Cardinality(S) |-> Task("destroy", SetToSeq(S)[i])]

StartTasks(S) == [i \in 1..Cardinality(S) |-> Task("start", SetToSeq(S)[i])]

\* A shortfall counted against the healthy domains only.
HealthyShortfall == desired - Cardinality(HealthyDomains)

\* A launch count that is one too large.
LaunchOneMore == desired - Cardinality(RunningDomains) + 1

\* Number of domains one iteration launches.
NumToLaunch == desired - Cardinality(RunningDomains)

\* An excess that is one too large.
ExcessPlusOne == Cardinality(HealthyDomains) - desired + 1

\* Number of healthy domains one iteration destroys.
NumToDestroy == Cardinality(HealthyDomains) - desired

\* An iteration that clears the change signal without looking at the fleet.
ReconcileBlind(ips, picks) ==
  /\ phase = "serving"
  /\ state_changed
  /\ spawned = <<>>
  /\ picks = {}
  /\ state_changed' = FALSE
  /\ probed' = {}
  /\ UNCHANGED <<domains, dom, created, desired, healthcheck_tasks, hc, start, conf, tries,
                 destroying, spawned, hv, network, phase, cleanup, reply, max_desired,
                 failures>>

\* One iteration of respond_to_state_change, from the wait to the clear; ips
\* are the addresses _generate_static_ip returns, picks the sample of
\* random.sample.  The tasks it creates are queued before its next wake-up, so
\* they run their first step before the next iteration.
Reconcile(ips, picks) ==
  /\ phase = "serving"
  /\ state_changed
  /\ spawned = <<>>
  /\ IF NumToLaunch > 0
     THEN /\ created + NumToLaunch <= MaxDomains
          /\ picks = {}
          /\ LET new == (created + 1)..(created + NumToLaunch) IN
               /\ \A n \in new : ips[n] \in GenerateStaticIp
               /\ dom' = [n \in Names |-> IF n \in new THEN NewDomain(ips[n]) ELSE dom[n]]
               /\ created' = created + NumToLaunch
               /\ spawned' = DestroyTasks(UnhealthyDomains) \o StartTasks(new)
     ELSE IF NumToDestroy > 0
     THEN /\ picks \subseteq HealthyDomains
          /\ Cardinality(picks) = NumToDestroy
          /\ spawned' = DestroyTasks(UnhealthyDomains) \o DestroyTasks(picks)
          /\ UNCHANGED <<dom, created>>
     ELSE /\ picks = {}
          /\ spawned' = DestroyTasks(UnhealthyDomains)
          /\ UNCHANGED <<dom, created>>
  /\ state_changed' = FALSE
  /\ probed' = {}
  /\ UNCHANGED <<domains, desired, healthcheck_tasks, hc, start, conf, tries, destroying,
                 hv, network, phase, cleanup, reply, max_desired, failures>>

\* ------------------------------------------------------ launching
\* _start_domain_task up to its first await: the record enters the fleet.
StartBegin ==
  /\ phase = "serving"
  /\ spawned # <<>>
  /\ Head(spawned).task = "start"
  /\ domains' = domains \cup {Head(spawned).name}
  /\ start' = [start EXCEPT ![Head(spawned).name] = "open"]
  /\ state_changed' = TRUE
  /\ spawned' = Tail(spawned)
  /\ UNCHANGED <<dom, created, desired, healthcheck_tasks, hc, conf, tries, destroying,
                 probed, hv, network, phase, cleanup, reply, max_desired, failures>>

\* An except branch that leaves the change signal alone.
StartRaiseSilent(n, exc) ==
  /\ domains' = domains \ {n}
  /\ start' = [start EXCEPT ![n] = exc]
  /\ failures' = failures + 1
  /\ UNCHANGED <<dom, conf, hv, network, state_changed>>

\* The except branch of _start_domain_task: the record leaves the fleet.
StartRaise(n, exc) ==
  /\ domains' = domains \ {n}
  /\ start' = [start EXCEPT ![n] = exc]
  /\ state_changed' = TRUE
  /\ failures' = failures + 1
  /\ UNCHANGED <<dom, conf, hv, network>>

\* A launch that leaves started_at of the record unset.
LaunchedUnstamped(n) ==
  /\ hv' = hv \cup {n}
  /\ conf' = [conf EXCEPT ![n] = "running"]
  /\ dom' = [dom EXCEPT ![n].state = HEALTHCHECK_INITIALIZING]
  /\ start' = [start EXCEPT ![n] = "closing"]
  /\ UNCHANGED <<domains, network, state_changed, failures>>

\* launch_domain from createXML to the close of the connection: the domain
\* runs, its configure task is created, the record is HEALTHCHECK_INITIALIZING.
Launched(n) ==
  /\ hv' = hv \cup {n}
  /\ conf' = [conf EXCEPT ![n] = "running"]
  /\ dom' = [dom EXCEPT ![n].state = HEALTHCHECK_INITIALIZING, ![n].started_at = TRUE]
  /\ start' = [start EXCEPT ![n] = "closing"]
  /\ UNCHANGED <<domains, network, state_changed, failures>>

\* get_or_create_nat_network checks the bridge name before any hypervisor call.
BridgeNameOk(bridge_name) == Len(bridge_name) <= MaxBridgeLen

\* A network request that looks the network up before it checks the name.
GetOrCreateLookupFirst(bridge_name, net, ok) ==
  IF ~ok
  THEN [raises |-> "libvirtError", calls |-> <<"networkLookupByName">>, create |-> FALSE]
  ELSE IF net = "present"
  THEN [raises |-> "none", calls |-> <<"networkLookupByName">>, create |-> FALSE]
  ELSE IF ~BridgeNameOk(bridge_name)
  THEN [raises |-> "ValueError", calls |-> <<"networkLookupByName">>, create |-> FALSE]
  ELSE [raises |-> "none", calls |-> <<"networkLookupByName", "networkCreateXML">>,
        create |-> TRUE]

\* get_or_create_nat_network up to its await, for a network that is net and a
\* lookup the hypervisor answers (ok) or fails: the exception it raises, the
\* hypervisor calls it makes, and whether it sends a creation to a thread.
GetOrCreateNatNetwork(bridge_name, net, ok) ==
  IF ~BridgeNameOk(bridge_name)
  THEN [raises |-> "ValueError", calls |-> <<>>, create |-> FALSE]
  ELSE IF ~ok
  THEN [raises |-> "libvirtError", calls |-> <<"networkLookupByName">>, create |-> FALSE]
  ELSE IF net = "present"
  THEN [raises |-> "none", calls |-> <<"networkLookupByName">>, create |-> FALSE]
  ELSE [raises |-> "none", calls |-> <<"networkLookupByName", "networkCreateXML">>,
        create |-> TRUE]

\* launch_domain with the connection open (ok: the hypervisor answers).  The
\* network is looked up: when it is absent its creation is sent to a thread;
\* when it is present the launch goes on to createXML, which returns.
StartNetwork(n, ok) ==
  /\ phase = "serving"
  /\ start[n] = "open"
  /\ LET r == GetOrCreateNatNetwork(dom[n].bridge_name, network, ok) IN
       IF r.raises # "none"
       THEN StartRaise(n, r.raises)
       ELSE IF r.create
       THEN /\ start' = [start EXCEPT ![n] = "netcreate"]
            /\ UNCHANGED <<domains, dom, conf, hv, network, state_changed, failures>>
       ELSE Launched(n)
  /\ UNCHANGED <<created, desired, healthcheck_tasks, hc, tries, destroying, spawned,
                 probed, phase, cleanup, reply, max_desired>>

\* networkCreateXML returns: libvirt refuses a second network of the same name.
StartNetCreate(n, ok) ==
  /\ phase = "serving"
  /\ start[n] = "netcreate"
  /\ IF ok /\ network = "absent"
     THEN /\ network' = "present"
          /\ start' = [start EXCEPT ![n] = "create"]
          /\ UNCHANGED <<domains, dom, conf, hv, state_changed, failures>>
     ELSE StartRaise(n, "libvirtError")
  /\ UNCHANGED <<created, desired, healthcheck_tasks, hc, tries, destroying, spawned,
                 probed, phase, cleanup, reply, max_desired>>

\* createXML returns in the launch that created the network.
StartCreate(n, ok) ==
  /\ phase = "serving"
  /\ start[n] = "create"
  /\ IF ok THEN Launched(n) ELSE StartRaise(n, "libvirtError")
  /\ UNCHANGED <<created, desired, healthcheck_tasks, hc, tries, destroying, spawned,
                 probed, phase, cleanup, reply, max_desired>>

\* _start_domain_task after launch_domain returned: the record is stored again
\* and its healthcheck task registered.
StartFinish(n) ==
  /\ phase = "serving"
  /\ start[n] = "closing"
  /\ domains' = domains \cup {n}
  /\ state_changed' = TRUE
  /\ healthcheck_tasks' = healthcheck_tasks \cup {n}
  /\ hc' = [hc EXCEPT ![n] = "running"]
  /\ start' = [start EXCEPT ![n] = "done"]
  /\ UNCHANGED <<dom, created, desired, conf, tries, destroying, spawned, probed, hv,
                 network, phase, cleanup, reply, max_desired, failures>>

\* ------------------------------------------------------ configuring
\* configure_domain returns (TRUE) or raises (FALSE).
ConfigureDomainReturns == BOOLEAN

\* A retry loop that makes one attempt more than configured.
ConfigureStepOneMore(n, ok, retries) ==
  /\ phase = "serving"
  /\ conf[n] = "running"
  /\ IF ok
     THEN /\ conf' = [conf EXCEPT ![n] = "done"]
          /\ UNCHANGED <<tries, dom, domains, state_changed, failures>>
     ELSE /\ tries' = [tries EXCEPT ![n] = @ + 1]
          /\ failures' = failures + 1
          /\ IF tries[n] + 1 <= retries
             THEN UNCHANGED <<conf, dom, domains, state_changed>>
             ELSE /\ dom' = [dom EXCEPT ![n].state = UNHEALTHY]
                  /\ domains' = domains \cup {n}
                  /\ state_changed' = TRUE
                  /\ conf' = [conf EXCEPT ![n] = "failed"]
  /\ UNCHANGED <<created, desired, healthcheck_tasks, hc, start, destroying, spawned,
                 probed, hv, network, phase, cleanup, reply, max_desired>>

\* One configure_domain call of _configure_domain_task returns (ok) or raises,
\* in a loop of range(retries); after the last failed attempt the else branch
\* of the loop marks the record and stores it.
ConfigureStep(n, ok, retries) ==
  /\ phase = "serving"
  /\ conf[n] = "running"
  /\ IF ok
     THEN /\ conf' = [conf EXCEPT ![n] = "done"]
          /\ UNCHANGED <<tries, dom, domains, state_changed, failures>>
     ELSE /\ tries' = [tries EXCEPT ![n] = @ + 1]
          /\ failures' = failures + 1
          /\ IF tries[n] + 1 < retries
             THEN UNCHANGED <<conf, dom, domains, state_changed>>
             ELSE /\ dom' = [dom EXCEPT ![n].state = UNHEALTHY]
                  /\ domains' = domains \cup {n}
                  /\ state_changed' = TRUE
                  /\ conf' = [conf EXCEPT ![n] = "failed"]
  /\ UNCHANGED <<created, desired, healthcheck_tasks, hc, start, destroying, spawned,
                 probed, hv, network, phase, cleanup, reply, max_desired>>

\* The configure task with the configured number of retries.
ConfigureAttempt(n, ok) == ConfigureStep(n, ok, CONFIGURATION_RETRIES)

\* ------------------------------------------------------ probing
\* A probe count that promotes a record only past the threshold.
AfterProbeStrict(d, healthy) ==
  IF healthy /\ d.n_success_healthchecks < HEALTHCHECK_HEALTHY_THRESHOLD
  THEN IF d.n_success_healthchecks + 1 > HEALTHCHECK_HEALTHY_THRESHOLD
       THEN [d EXCEPT !.n_success_healthchecks = @ + 1, !.state = HEALTHY,
                      !.n_failed_healthchecks = 0, !.ever_healthy = TRUE]
       ELSE [d EXCEPT !.n_success_healthchecks = @ + 1]
  ELSE IF ~healthy /\ d.n_failed_healthchecks < HEALTHCHECK_UNHEALTHY_THRESHOLD
  THEN IF d.n_failed_healthchecks + 1 >= HEALTHCHECK_UNHEALTHY_THRESHOLD
       THEN [d EXCEPT !.n_failed_healthchecks = @ + 1, !.state = UNHEALTHY,
                      !.n_success_healthchecks = 0]
       ELSE [d EXCEPT !.n_failed_healthchecks = @ + 1]
  ELSE d

\* An update that keeps the success count when the record turns UNHEALTHY.
AfterProbeKeepsCount(d, healthy) ==
  IF healthy /\ d.n_success_healthchecks < HEALTHCHECK_HEALTHY_THRESHOLD
  THEN IF d.n_success_healthchecks + 1 >= HEALTHCHECK_HEALTHY_THRESHOLD
       THEN [d EXCEPT !.n_success_healthchecks = @ + 1, !.state = HEALTHY,
                      !.n_failed_healthchecks = 0, !.ever_healthy = TRUE]
       ELSE [d EXCEPT !.n_success_healthchecks = @ + 1]
  ELSE IF ~healthy /\ d.n_failed_healthchecks < HEALTHCHECK_UNHEALTHY_THRESHOLD
  THEN IF d.n_failed_healthchecks + 1 >= HEALTHCHECK_UNHEALTHY_THRESHOLD
       THEN [d EXCEPT !.n_failed_healthchecks = @ + 1, !.state = UNHEALTHY]
       ELSE [d EXCEPT !.n_failed_healthchecks = @ + 1]
  ELSE d

\* The record after one probe result, as the loop body of _healthcheck_task
\* updates it.
AfterProbe(d, healthy) ==
  IF healthy /\ d.n_success_healthchecks < HEALTHCHECK_HEALTHY_THRESHOLD
  THEN IF d.n_success_healthchecks + 1 >= HEALTHCHECK_HEALTHY_THRESHOLD
       THEN [d EXCEPT !.n_success_healthchecks = @ + 1, !.state = HEALTHY,
                      !.n_failed_healthchecks = 0, !.ever_healthy = TRUE]
       ELSE [d EXCEPT !.n_success_healthchecks = @ + 1]
  ELSE IF ~healthy /\ d.n_failed_healthchecks < HEALTHCHECK_UNHEALTHY_THRESHOLD
  THEN IF d.n_failed_healthchecks + 1 >= HEALTHCHECK_UNHEALTHY_THRESHOLD
       THEN [d EXCEPT !.n_failed_healthchecks = @ + 1, !.state = UNHEALTHY,
                      !.n_success_healthchecks = 0]
       ELSE [d EXCEPT !.n_failed_healthchecks = @ + 1]
  ELSE d

\* History: the run of equal probe results after one more result, counted up
\* to the thresholds.
Streak(d, healthy) ==
  IF healthy
  THEN IF d.streak <= 0 THEN 1
       ELSE IF d.streak < HEALTHCHECK_HEALTHY_THRESHOLD THEN d.streak + 1 ELSE d.streak
  ELSE IF d.streak >= 0 THEN -1
       ELSE IF -d.streak < HEALTHCHECK_UNHEALTHY_THRESHOLD THEN d.streak - 1 ELSE d.streak

\* Whether the loop body sets the change signal for this probe result.
ProbeNotifies(d, healthy) ==
  \/ healthy /\ d.n_success_healthchecks < HEALTHCHECK_HEALTHY_THRESHOLD
  \/ ~healthy /\ d.n_failed_healthchecks < HEALTHCHECK_UNHEALTHY_THRESHOLD

\* One iteration of the loop of _healthcheck_task: a probe returned.  The
\* lookup of a name that left the fleet raises KeyError and ends the task.  A
\* task that ran while the reconciler's wake-up is queued runs again only
\* after the reconciler: the loop's ready queue is first in, first out.
HealthcheckProbe(n, healthy) ==
  /\ phase = "serving"
  /\ hc[n] = "running"
  /\ n \notin probed
  /\ IF n \notin domains
     THEN /\ hc' = [hc EXCEPT ![n] = "crashed"]
          /\ UNCHANGED <<dom, state_changed>>
     ELSE /\ dom' = [dom EXCEPT ![n] = [AfterProbe(dom[n], healthy) EXCEPT
                                          !.streak = Streak(dom[n], healthy)]]
          /\ state_changed' = (state_changed \/ ProbeNotifies(dom[n], healthy))
          /\ UNCHANGED hc
  /\ probed' = IF state_changed' THEN probed \cup {n} ELSE {}
  /\ failures' = IF healthy THEN failures ELSE failures + 1
  /\ UNCHANGED <<domains, created, desired, healthcheck_tasks, start, conf, tries,
                 destroying, spawned, hv, network, phase, cleanup, reply, max_desired>>

\* ------------------------------------------------------ destroying
\* A destroy task that leaves the healthcheck tasks running.
KeepHealthchecks(S) == hc

\* task.cancel() on the registered healthcheck tasks of the names in S.
CancelHealthchecks(S) ==
  [n \in Names |-> IF n \in S /\ hc[n] = "running" THEN "cancelled" ELSE hc[n]]

\* _destroy_domain_task up to the await of destroy_domain.
DestroyBegin ==
  /\ phase = "serving"
  /\ spawned # <<>>
  /\ Head(spawned).task = "destroy"
  /\ dom' = [dom EXCEPT ![Head(spawned).name].state = TERMINATING]
  /\ domains' = domains \cup {Head(spawned).name}
  /\ state_changed' = TRUE
  /\ hc' = CancelHealthchecks({Head(spawned).name} \cap healthcheck_tasks)
  /\ healthcheck_tasks' = healthcheck_tasks \ {Head(spawned).name}
  /\ destroying' = [destroying EXCEPT ![Head(spawned).name] = @ + 1]
  /\ spawned' = Tail(spawned)
  /\ UNCHANGED <<created, desired, start, conf, tries, probed, hv, network, phase,
                 cleanup, reply, max_desired, failures>>

\* destroy_domain returned (ok: the hypervisor obeys): the record is deleted.
\* The lookup of a domain the hypervisor does not know, and a refused destroy,
\* raise and leave the record.
DestroyFinish(n, ok) ==
  /\ phase = "serving"
  /\ destroying[n] > 0
  /\ IF ok /\ n \in hv
     THEN /\ hv' = hv \ {n}
          /\ domains' = domains \ {n}
          /\ UNCHANGED failures
     ELSE /\ failures' = failures + 1
          /\ UNCHANGED <<hv, domains>>
  /\ destroying' = [destroying EXCEPT ![n] = @ - 1]
  /\ UNCHANGED <<dom, created, desired, state_changed, healthcheck_tasks, hc, start, conf,
                 tries, spawned, probed, network, phase, cleanup, reply, max_desired>>

\* ------------------------------------------------------ shutdown
\* The records _cleanup destroys.
SweptDomains == {n \in domains : dom[n].state \notin {TERMINATING, LAUNCHING}}

\* serve_forever leaves asyncio.run(_run_jobs()): every task of the loop is
\* cancelled and the loop closed (a hypervisor call already running in a thread
\* may still take effect).  Then _cleanup gathers a destroy task per swept
\* record and the network destroy, which all run up to their first await.
Shutdown ==
  /\ phase = "serving"
  /\ \E made \in SUBSET {n \in Names : start[n] = "create"},
        gone \in SUBSET {n \in hv : destroying[n] > 0},
        net \in {network} \cup
                (IF \E n \in Names : start[n] = "netcreate" THEN {"present"} ELSE {}) :
       /\ hv' = (hv \cup made) \ gone
       /\ network' = net
  /\ start' = NoTasks
  /\ conf' = NoTasks
  /\ hc' = NoTasks
  /\ tries' = [n \in Names |-> 0]
  /\ destroying' = [n \in Names |-> 0]
  /\ spawned' = <<>>
  /\ probed' = {}
  /\ dom' = [n \in Names |-> IF n \in SweptDomains
                                THEN [dom[n] EXCEPT !.state = TERMINATING] ELSE dom[n]]
  /\ healthcheck_tasks' = healthcheck_tasks \ SweptDomains
  /\ state_changed' = (state_changed \/ SweptDomains # {})
  /\ cleanup' = [destroy |-> SweptDomains, net |-> "pending"]
  /\ phase' = "cleanup"
  /\ UNCHANGED <<domains, created, desired, reply, max_desired, failures>>

\* A destroy task of _cleanup ends; an exception ends the gather.
CleanupDestroy(n, ok) ==
  /\ phase = "cleanup"
  /\ n \in cleanup.destroy
  /\ IF ok /\ n \in hv
     THEN /\ hv' = hv \ {n}
          /\ domains' = domains \ {n}
          /\ cleanup' = [cleanup EXCEPT !.destroy = @ \ {n}]
          /\ UNCHANGED <<phase, failures>>
     ELSE /\ phase' = "failed"
          /\ failures' = failures + 1
          /\ UNCHANGED <<hv, domains, cleanup>>
  /\ UNCHANGED <<dom, created, desired, state_changed, healthcheck_tasks, hc, start, conf,
                 tries, destroying, spawned, probed, network, reply, max_desired>>

\* destroy_nat_network of _cleanup ends: the lookup of an absent network raises.
CleanupNetwork(ok) ==
  /\ phase = "cleanup"
  /\ cleanup.net = "pending"
  /\ IF ok /\ network = "present"
     THEN /\ network' = "absent"
          /\ cleanup' = [cleanup EXCEPT !.net = "done"]
          /\ UNCHANGED <<phase, failures>>
     ELSE /\ phase' = "failed"
          /\ failures' = failures + 1
          /\ UNCHANGED <<network, cleanup>>
  /\ UNCHANGED <<domains, dom, created, desired, state_changed, healthcheck_tasks, hc,
                 start, conf, tries, destroying, spawned, probed, hv, reply, max_desired>>

\* The gather of _cleanup returns.
CleanupDone ==
  /\ phase = "cleanup"
  /\ cleanup.destroy = {}
  /\ cleanup.net = "done"
  /\ phase' = "done"
  /\ UNCHANGED <<domains, dom, created, desired, state_changed, healthcheck_tasks, hc,
                 start, conf, tries, destroying, spawned, probed, hv, network, cleanup,
                 reply, max_desired, failures>>

\* ------------------------------------------------------ specifications
\* The outcomes the environment may give an operation: it fails at most budget
\* operations in one run.
Outcomes(budget) == IF failures < budget THEN BOOLEAN ELSE {TRUE}

\* The tasks of the event loop, with addresses drawn from pool; the environment
\* fails hypervisor and configure operations within budget, probes within
\* probes.
Tasks(pool, budget, probes) ==
  \/ \E ips \in [Names -> pool], picks \in SUBSET Names : Reconcile(ips, picks)
  \/ StartBegin
  \/ DestroyBegin
  \/ \E n \in Names, ok \in Outcomes(budget) : StartNetwork(n, ok)
  \/ \E n \in Names, ok \in Outcomes(budget) : StartNetCreate(n, ok)
  \/ \E n \in Names, ok \in Outcomes(budget) : StartCreate(n, ok)
  \/ \E n \in Names : StartFinish(n)
  \/ \E n \in Names, ok \in Outcomes(budget) \cap ConfigureDomainReturns :
        ConfigureAttempt(n, ok)
  \/ \E n \in Names, healthy \in Outcomes(probes) : HealthcheckProbe(n, healthy)
  \/ \E n \in Names, ok \in Outcomes(budget) : DestroyFinish(n, ok)

\* The tasks of the event loop with one budget for every kind of failure.
Daemon(pool, budget) == Tasks(pool, budget, budget)

\* The operator's commands.
Operator == \E m \in ControlMsgs : ServeMsg(m)

\* The end of the daemon.
Stop(budget) ==
  \/ Shutdown
  \/ \E n \in Names, ok \in Outcomes(budget) : CleanupDestroy(n, ok)
  \/ \E ok \in Outcomes(budget) : CleanupNetwork(ok)
  \/ CleanupDone

\* The daemon with its operator, every address draw returning the first address.
Next == Operator \/ Daemon({MinIpSuffix}, MaxFailures) \/ Stop(MaxFailures)

Spec == Init /\ [][Next]_vars

\* The daemon where nothing fails, addresses drawn from the whole pool.
NextAlloc == Operator \/ Daemon(IpSuffixes, 0) \/ Stop(0)

SpecAlloc == Init /\ [][NextAlloc]_vars

\* The loop runs every task that is ready.
TaskFairness(budget) ==
  /\ WF_vars(\E ips \in [Names -> {MinIpSuffix}], picks \in SUBSET Names : Reconcile(ips, picks))
  /\ WF_vars(StartBegin)
  /\ WF_vars(DestroyBegin)
  /\ \A n \in Names :
       /\ WF_vars(\E ok \in Outcomes(budget) : StartNetwork(n, ok))
       /\ WF_vars(\E ok \in Outcomes(budget) : StartNetCreate(n, ok))
       /\ WF_vars(\E ok \in Outcomes(budget) : StartCreate(n, ok))
       /\ WF_vars(StartFinish(n))
       /\ WF_vars(\E ok \in Outcomes(budget) \cap ConfigureDomainReturns :
                    ConfigureAttempt(n, ok))
       /\ WF_vars(\E healthy \in Outcomes(budget) : HealthcheckProbe(n, healthy))
       /\ WF_vars(\E ok \in Outcomes(budget) : DestroyFinish(n, ok))

\* The event loop alone: no command arrives and the daemon is not stopped.
Fairness == TaskFairness(MaxFailures)

NextLoop == Daemon({MinIpSuffix}, MaxFailures)

SpecFair == Init /\ [][NextLoop]_vars /\ Fairness

\* The event loop where no operation fails and the operator sends at most one
\* command, whose response is recorded.
OperatorOnce == reply = NoReply /\ \E m \in ControlMsgs : HandleMsg(m)

NextCalm == OperatorOnce \/ Daemon({MinIpSuffix}, 0)

SpecCalm == Init /\ [][NextCalm]_vars /\ TaskFairness(0)

\* The event loop where only probes fail, often enough to make one record
\* UNHEALTHY.
NextProbe == Tasks({MinIpSuffix}, 0, HEALTHCHECK_UNHEALTHY_THRESHOLD)

SpecProbe == Init /\ [][NextProbe]_vars /\ TaskFairness(0)

\* A bridge name of k characters.
BridgeNameOfLen(k) ==
  [i \in 1..k |-> IF i <= Len(BRIDGE_NAME) THEN BRIDGE_NAME[i] ELSE "0"]

\* The network request alone: two launches have opened their connections, for
\* records that carry a bridge name of any length up to MaxNameLen, and the
\* network exists or not.
InitNet ==
  /\ \E k \in 0..MaxNameLen :
       dom = [n \in Names |->
                IF n <= InitialDesired
                THEN [NewDomain(MinIpSuffix) EXCEPT !.bridge_name = BridgeNameOfLen(k)]
                ELSE NoDomain]
  /\ domains = 1..InitialDesired
  /\ created = InitialDesired
  /\ start = [n \in Names |-> IF n <= InitialDesired THEN "open" ELSE "none"]
  /\ network \in {"absent", "present"}
  /\ healthcheck_tasks = {}
  /\ hc = NoTasks
  /\ conf = NoTasks
  /\ tries = [n \in Names |-> 0]
  /\ destroying = [n \in Names |-> 0]
  /\ spawned = <<>>
  /\ probed = {}
  /\ hv = {}
  /\ phase = "serving"
  /\ cleanup = [destroy |-> {}, net |-> "none"]
  /\ desired = InitialDesired
  /\ max_desired = InitialDesired
  /\ state_changed = TRUE
  /\ reply = NoReply
  /\ failures = 0

NextNet ==
  \/ \E n \in Names, ok \in BOOLEAN : StartNetwork(n, ok)
  \/ \E n \in Names, ok \in BOOLEAN : StartNetCreate(n, ok)

SpecNet == InitNet /\ [][NextNet]_vars

\* The event loop under a fair scheduler with at most one control command,
\* where one operation may fail.
NextRetry == OperatorOnce \/ Daemon({MinIpSuffix}, MaxFailures)

SpecRetry == Init /\ [][NextRetry]_vars /\ Fairness

\* The event loop where one operation may fail and probes fail often enough
\* to make one record UNHEALTHY.
NextFlaky == Tasks({MinIpSuffix}, MaxFailures, HEALTHCHECK_UNHEALTHY_THRESHOLD)

SpecFlaky == Init /\ [][NextFlaky]_vars

\* The event loop of a daemon configured with one configure retry more, where
\* only configure attempts fail: often enough for one task to fail every
\* attempt and another to fail all but its last.
RetriesConf == CONFIGURATION_RETRIES + 1

ConfFailures == 2 * RetriesConf - 1

NextConf ==
  \/ \E ips \in [Names -> {MinIpSuffix}], picks \in SUBSET Names : Reconcile(ips, picks)
  \/ StartBegin
  \/ DestroyBegin
  \/ \E n \in Names : StartNetwork(n, TRUE)
  \/ \E n \in Names : StartNetCreate(n, TRUE)
  \/ \E n \in Names : StartCreate(n, TRUE)
  \/ \E n \in Names : StartFinish(n)
  \/ \E n \in Names, ok \in Outcomes(ConfFailures) \cap ConfigureDomainReturns :
        ConfigureStep(n, ok, RetriesConf)
  \/ \E n \in Names : HealthcheckProbe(n, TRUE)
  \/ \E n \in Names : DestroyFinish(n, TRUE)

SpecConf == Init /\ [][NextConf]_vars

\* handle_msg alone, from every desired size and signal it may find.
InitMsg ==
  /\ InitFleet
  /\ desired \in {MIN_SCALE, InitialDesired, MAX_SCALE}
  /\ max_desired = MAX_SCALE
  /\ state_changed \in BOOLEAN
  /\ reply = NoReply
  /\ failures = 0

NextMsg == \E m \in Messages : HandleMsg(m)

SpecMsg == InitMsg /\ [][NextMsg]_vars

\* ------------------------------------------------------ properties
\* Names whose start task was created and has not run yet.
PendingStarts ==
  {spawned[i].name : i \in {j \in 1..Len(spawned) : spawned[j].task = "start"}}

\* Names whose destroy task was created and has not run yet.
PendingDestroys ==
  {spawned[i].name : i \in {j \in 1..Len(spawned) : spawned[j].task = "destroy"}}

\* Names with a launch task in flight.
LaunchesInFlight ==
  PendingStarts \cup {n \in Names : start[n] \in {"open", "netcreate", "create", "closing"}}

\* Names with a destroy task in flight.
DestroysInFlight == PendingDestroys \cup {n \in Names : destroying[n] > 0}

NonTerminating == {n \in domains : dom[n].state # TERMINATING}

\* A step of the reconciler: nothing else clears the change signal.
ReconcileStep == state_changed /\ ~state_changed'

\* C1: a record that is TERMINATING and stays in the fleet stays TERMINATING,
\* whichever task takes the step.
C1_TerminatingIsFinal ==
  [][\A n \in Names :
       (n \in domains /\ dom[n].state = TERMINATING /\ n \in domains')
         => dom'[n].state = TERMINATING]_vars

\* C2: any two distinct records of the fleet have different addresses.
C2_AddressesDistinct ==
  \A a, b \in domains : a # b => dom[a].ip_address # dom[b].ip_address

\* C3 as stated: while the daemon serves, the records that are not TERMINATING
\* number at most the desired size plus the launches in flight.
C3_FleetBound ==
  phase = "serving" =>
    Cardinality(NonTerminating) <= desired + Cardinality(LaunchesInFlight)

\* C3 amended: the bound holds of what the reconciler adds, not of every
\* instant.  After an iteration of the reconciler the running records plus the
\* launches it created number at most the desired size, unless the running
\* records alone already exceeded it (then it creates no launch).
C3_ReconcilerBound ==
  [][ReconcileStep =>
        Cardinality(RunningDomains) + Cardinality(PendingStarts')
          <= (IF Cardinality(RunningDomains) > desired
              THEN Cardinality(RunningDomains) ELSE desired)]_vars

\* C3 witness: the reconciler has just created the one launch that replaces
\* a record, next to a running record.
C3_Witness ==
  /\ created = MaxDomains
  /\ PendingStarts = {MaxDomains}
  /\ Cardinality(RunningDomains) = desired - 1
  /\ desired = InitialDesired

\* The model stops creating records at MaxDomains: the reconciler wants to
\* launch and the bound refuses.
AtDomainBound == NumToLaunch > 0 /\ created + NumToLaunch > MaxDomains

\* C4: every record that is UNHEALTHY in the fleet is followed by a destroy
\* task for it (created, or started: the record turns TERMINATING).
C4_UnhealthyDestroyed ==
  \A n \in Names :
    (n \in domains /\ dom[n].state = UNHEALTHY)
      ~> (n \in DestroysInFlight \/ AtDomainBound)

\* C5: when the cleanup of the shutdown has returned, the fleet is empty and
\* the network is gone.
C5_CleanShutdown == phase = "done" => (domains = {} /\ network = "absent")

\* Records created that were not destroyed or marked for it.
Alive == PendingStarts \cup NonTerminating

\* C6 as stated (the general sentence): without failures the number of
\* records ever created is at most the largest desired size requested.
C6_CreatedBound == failures = 0 => created <= max_desired

\* C6 amended: without failures the records alive (created and neither
\* TERMINATING nor removed) number at most the largest desired size requested;
\* the records created may be more, after a scale down and up again.
C6_AliveBound == failures = 0 => Cardinality(Alive) <= max_desired

\* C6 witness: nothing failed, the fleet was scaled down and up again, and
\* a third record was created for a largest desired size of two.
C6_Witness ==
  /\ failures = 0
  /\ created = MaxDomains
  /\ created > max_desired
  /\ Cardinality(Alive) = max_desired
  /\ \E n \in Alive : dom[n].state = HEALTHY

\* The fleet holds HEALTHY records only.
OnlyHealthy == domains # {} /\ \A n \in domains : dom[n].state = HEALTHY

\* Nothing is in flight and the reconciler has seen every change.
Settled ==
  /\ phase = "serving"
  /\ ~state_changed
  /\ spawned = <<>>
  /\ LaunchesInFlight = {}
  /\ DestroysInFlight = {}
  /\ \A n \in domains : dom[n].state \notin {LAUNCHING, HEALTHCHECK_INITIALIZING}

\* C7, the iteration: with k HEALTHY records and no others and desired d < k,
\* the reconciler creates destroy tasks for exactly k - d of them, and creates
\* no record and no launch.
C7_Trim ==
  [][(OnlyHealthy /\ desired < Cardinality(domains) /\ ReconcileStep) =>
       /\ Len(spawned') = Cardinality(domains) - desired
       /\ Cardinality(PendingDestroys') = Cardinality(domains) - desired
       /\ PendingDestroys' \subseteq domains
       /\ PendingStarts' = {}
       /\ created' = created]_vars

\* C7, the end: when nothing failed and everything has settled the fleet
\* holds exactly desired records, all HEALTHY.
C7_SettledFleet ==
  (failures = 0 /\ Settled) => (Cardinality(domains) = desired /\ OnlyHealthy)

\* C7: scaling k HEALTHY records down to d marks exactly k - d of them, and
\* leaves exactly d HEALTHY records without launching any.
C7_ScaleDown == []C7_SettledFleet /\ C7_Trim

\* C7 witness: two records were launched, one was trimmed and destroyed, the
\* other is the whole fleet.
C7_Witness ==
  /\ failures = 0
  /\ Settled
  /\ created = InitialDesired
  /\ desired = MIN_SCALE
  /\ Cardinality(domains) = MIN_SCALE
  /\ OnlyHealthy
  /\ Cardinality(hv) = MIN_SCALE

\* C8: no name has its configure task and a destroy task active together.
C8_OneLifecycleTask ==
  \A n \in Names : ~(conf[n] = "running" /\ n \in DestroysInFlight)

\* C9: after `scale N` with 1 <= N <= 100 the desired size is N, the signal
\* is set and the reply is OK with the confirmation.
C9_ValidScale ==
  \A k \in MIN_SCALE..MAX_SCALE :
    reply.msg = Scale(Numeral(k)) =>
      /\ desired = k
      /\ state_changed
      /\ reply.status = "OK"
      /\ reply.body = "Scale to"
      /\ reply.n = k
      /\ reply.closed

\* C9 witness: `scale 100` was handled from a smaller desired size.
C9_Witness ==
  /\ reply.msg = Scale(Numeral(MAX_SCALE))
  /\ desired = MAX_SCALE
  /\ reply.status = "OK"

\* The refused arguments the claim lists: 0, 101, a word, nothing.
RefusedArgs == {Numeral(MIN_SCALE - 1), Numeral(MAX_SCALE + 1), <<"x">>, <<>>}

\* C10: a `scale ` message with a refused argument is answered ERROR with the
\* usage text, and changes neither the desired size nor the signal.
C10_RefusedScale ==
  [][\A a \in RefusedArgs :
       HandleMsg(Scale(a)) =>
         /\ reply'.status = "ERROR"
         /\ reply'.body = "Expected integer <1,100>"
         /\ desired' = desired
         /\ state_changed' = state_changed]_vars

\* Messages that are neither the state query nor a `scale ` command.
UnknownMsgs ==
  { FROBNICATE, <<>>, <<"s", "c", "a", "l", "e">>, <<"S", "C", "A", "L", "E", " ", "3">>,
    <<" ">> \o Scale(<<"3">>), STATE_CMD \o <<" ", "x">> }

C12_OneResponse ==
  reply # NoReply =>
    /\ reply.status \in {"OK", "ERROR"}
    /\ reply.body \in {"state_json", "Scale to", "Expected integer <1,100>", "Unknown command"}
    /\ reply.closed

\* C13: no command handler inserts, removes or changes a fleet record or a
\* task; a step that changes the desired size changes nothing else but the
\* signal, and `state` changes neither the desired size nor the signal.
C13_HandlerFrame ==
  [][/\ (\E m \in ControlMsgs : ServeMsg(m)) => UNCHANGED fleetVars
     /\ desired' # desired => UNCHANGED fleetVars
     /\ ServeMsg(STATE_CMD) => (desired' = desired /\ state_changed' = state_changed)]_vars

\* C13 witness: `scale 1` was served while the fleet held two HEALTHY records,
\* and the reconciler has not run since.
C13_Witness ==
  /\ desired = MIN_SCALE
  /\ state_changed
  /\ OnlyHealthy
  /\ Cardinality(domains) = InitialDesired
  /\ DestroysInFlight = {}

\* The fleet has converged: it holds exactly desired records, all HEALTHY.
Converged == OnlyHealthy /\ Cardinality(domains) = desired

\* C14: a `scale N` that repeats the current size N sets the signal, and the
\* iteration of the reconciler that finds N HEALTHY records for a desired size
\* of N creates no task and no record and leaves the fleet as it is.
C14_RepeatedScale ==
  [][/\ ServeMsg(Scale(Numeral(desired))) => (state_changed' /\ desired' = desired)
     /\ (Converged /\ ReconcileStep) =>
          /\ spawned' = <<>>
          /\ created' = created
          /\ UNCHANGED <<domains, dom, hv, healthcheck_tasks, hc, start, destroying>>]_vars

\* C14 witness: the first two records are HEALTHY, nothing failed, nothing was
\* destroyed, no task is in flight and no probe ran since the reconciler's
\* last iteration, and the signal is set: a scale command set it.
C14_Witness ==
  /\ failures = 0
  /\ desired = InitialDesired
  /\ created = InitialDesired
  /\ Converged
  /\ state_changed
  /\ probed = {}
  /\ spawned = <<>>
  /\ LaunchesInFlight = {}
  /\ phase = "serving"

\* C15: the desired size is an integer from 1 to 100 in every state, whatever
\* commands were handled.
C15_DesiredInRange == desired \in MIN_SCALE..MAX_SCALE

\* C15 witness: the desired size is at its upper limit and a `scale 101` has
\* just been refused.
C15_Witness ==
  /\ desired = MAX_SCALE
  /\ reply.msg = Scale(Numeral(MAX_SCALE + 1))
  /\ reply.status = "ERROR"

\* C16: when no launch, configure attempt or probe is made to fail, the fleet
\* comes to hold exactly desired records, all HEALTHY, and stays so (unless
\* the run needs more than MaxDomains records: concurrent first launches that
\* lose the creation of the network are launched again).
C16_Converges == <>[](Converged \/ AtDomainBound)

\* C16 witness: after `scale 1` the fleet was trimmed to one HEALTHY record
\* and nothing is left to do.
C16_Witness ==
  /\ reply.msg = Scale(Numeral(MIN_SCALE))
  /\ desired = MIN_SCALE
  /\ created >= InitialDesired
  /\ Converged
  /\ Settled

\* The record u was HEALTHY and is UNHEALTHY, alone in that state, in a fleet
\* whose other records make up the desired size with it.
FailedHealthy(u) ==
  /\ UnhealthyDomains = {u}
  /\ dom[u].ever_healthy
  /\ Cardinality(domains) = desired
  /\ \A n \in domains \ {u} : dom[n].state \notin {UNHEALTHY, TERMINATING}

\* C17, the iteration: the iteration of the reconciler that finds the failed
\* record creates its destroy task and, without waiting for it, exactly one
\* new record in LAUNCHING with its launch task; an iteration that finds as
\* many running records as desired creates none.
C17_Iteration ==
  [][ReconcileStep =>
       /\ \A u \in Names :
            FailedHealthy(u) =>
              /\ spawned' = <<Task("destroy", u), Task("start", created + 1)>>
              /\ created' = created + 1
              /\ dom'[created + 1].state = LAUNCHING
              /\ u \in domains' /\ dom'[u].state = UNHEALTHY
       /\ Cardinality(RunningDomains) >= desired => created' = created]_vars

\* C17, the destroy: a record that was HEALTHY and is UNHEALTHY in the fleet
\* is marked TERMINATING and then removed.
C17_Reaped ==
  \A u \in Names :
    /\ (u \in domains /\ dom[u].state = UNHEALTHY /\ dom[u].ever_healthy)
         ~> ((u \in domains /\ dom[u].state = TERMINATING) \/ AtDomainBound)
    /\ (u \in domains /\ dom[u].state = TERMINATING /\ dom[u].ever_healthy)
         ~> (u \notin domains)

\* C17: a HEALTHY record that turns UNHEALTHY is destroyed and replaced by
\* exactly one new record, created in the iteration that creates its destroy
\* task.
C17_Replacement == C17_Iteration /\ C17_Reaped

\* C17 witness: record 1 or 2 was HEALTHY, failed its probes and is UNHEALTHY;
\* the reconciler has just created its destroy task and record 3 in LAUNCHING.
C17_Witness ==
  \E u \in Names :
    /\ u \in domains
    /\ dom[u].state = UNHEALTHY
    /\ dom[u].ever_healthy
    /\ dom[u].n_failed_healthchecks = HEALTHCHECK_UNHEALTHY_THRESHOLD
    /\ spawned = <<Task("destroy", u), Task("start", MaxDomains)>>
    /\ created = MaxDomains
    /\ dom[MaxDomains].state = LAUNCHING
    /\ MaxDomains \notin domains
    /\ Cardinality(HealthyDomains) = desired - 1

\* The addresses held by the records of the fleet.
HeldAddresses == {dom[n].ip_address : n \in domains}

\* C18: when every address of the pool is held by a record of the fleet, an
\* iteration of the reconciler creates no record: the creation fails rather
\* than hand out an address that is in use.
C18_Exhaustion ==
  [][(ReconcileStep /\ HeldAddresses = IpSuffixes) => created' = created]_vars

\* C19: a network request with a bridge name of more than 15 characters
\* raises ValueError whatever the hypervisor would answer, makes no hypervisor
\* call (no lookup, no create), and leaves the network as it was.
C19_BridgeTooLong ==
  [][\A n \in Names :
       (start[n] = "open" /\ Len(dom[n].bridge_name) > MaxBridgeLen /\ start'[n] # "open")
         => /\ start'[n] = "ValueError"
            /\ network' = network
            /\ hv' = hv
            /\ \A ok \in BOOLEAN :
                 GetOrCreateNatNetwork(dom[n].bridge_name, network, ok).calls = <<>>]_vars

\* C19 witness: a request with a name of 16 characters was refused while the
\* network did not exist.
C19_Witness ==
  \E n \in Names :
    /\ start[n] = "ValueError"
    /\ Len(dom[n].bridge_name) = MaxBridgeLen + 1
    /\ network = "absent"
    /\ n \notin domains

\* C20: every record the daemon created carries a bridge name of at most 15
\* characters, and no launch had its network request refused for the name.
C20_BridgeNameFits ==
  \A n \in Names :
    dom[n].state # "NONE" =>
      (Len(dom[n].bridge_name) <= MaxBridgeLen /\ start[n] # "ValueError")

\* C20 witness: the daemon created all its records and the network, and a
\* domain of the last record runs.
C20_Witness ==
  /\ created = MaxDomains
  /\ \A n \in Names : dom[n].bridge_name = BRIDGE_NAME
  /\ network = "present"
  /\ MaxDomains \in hv

\* C21: a probe that fails leaves the probing loop running: the failure is
\* counted in the record, and the task goes on to its next probe.
C21_ProbeFailureContained ==
  [][\A n \in Names :
       HealthcheckProbe(n, FALSE) =>
         /\ hc'[n] = "running"
         /\ n \in domains'
         /\ dom'[n].state = AfterProbe(dom[n], FALSE).state
         /\ dom'[n].n_failed_healthchecks = AfterProbe(dom[n], FALSE).n_failed_healthchecks]_vars

\* C22: a record becomes HEALTHY only at a probe that completes a run of
\* HEALTHCHECK_HEALTHY_THRESHOLD successful probes in a row.
C22_HealthyAfterConsecutive ==
  [][\A n \in domains :
       (dom[n].state # HEALTHY /\ dom'[n].state = HEALTHY) =>
         dom'[n].streak >= HEALTHCHECK_HEALTHY_THRESHOLD]_vars

\* C23: a HEALTHY record becomes UNHEALTHY only at a probe that completes a
\* run of HEALTHCHECK_UNHEALTHY_THRESHOLD failed probes in a row.
C23_UnhealthyAfterConsecutive ==
  [][\A n \in domains :
       (dom[n].state = HEALTHY /\ dom'[n].state = UNHEALTHY) =>
         -dom'[n].streak >= HEALTHCHECK_UNHEALTHY_THRESHOLD]_vars

CountersInRange ==
  \A n \in Names :
    /\ dom[n].n_success_healthchecks \in 0..HEALTHCHECK_HEALTHY_THRESHOLD
    /\ dom[n].n_failed_healthchecks \in 0..HEALTHCHECK_UNHEALTHY_THRESHOLD

FailuresReachThreshold(n) ==
  /\ dom[n].n_failed_healthchecks < HEALTHCHECK_UNHEALTHY_THRESHOLD
  /\ dom'[n].n_failed_healthchecks = HEALTHCHECK_UNHEALTHY_THRESHOLD

SuccessesReachThreshold(n) ==
  /\ dom[n].n_success_healthchecks < HEALTHCHECK_HEALTHY_THRESHOLD
  /\ dom'[n].n_success_healthchecks = HEALTHCHECK_HEALTHY_THRESHOLD

\* C24: both probe counters of every record stay between 0 and their
\* threshold; the step that brings n_failed_healthchecks to its threshold
\* makes the record UNHEALTHY with n_success_healthchecks = 0, and the step
\* that brings n_success_healthchecks to its threshold makes it HEALTHY with
\* n_failed_healthchecks = 0.
C24_Counters ==
  /\ []CountersInRange
  /\ [][\A n \in Names :
          /\ FailuresReachThreshold(n) =>
                dom'[n].state = UNHEALTHY /\ dom'[n].n_success_healthchecks = 0
          /\ SuccessesReachThreshold(n) =>
                dom'[n].state = HEALTHY /\ dom'[n].n_failed_healthchecks = 0]_vars

\* A record that had all its successes counted failed its probes up to the
\* threshold: it is UNHEALTHY and its success count is back at 0.
C24_Witness ==
  \E n \in domains :
    /\ dom[n].ever_healthy
    /\ dom[n].state = UNHEALTHY
    /\ dom[n].n_failed_healthchecks = HEALTHCHECK_UNHEALTHY_THRESHOLD
    /\ dom[n].n_success_healthchecks = 0

\* C25: started_at of a record of the fleet is unset exactly while the record
\* is LAUNCHING; it is set in the step that takes the record from LAUNCHING
\* to HEALTHCHECK_INITIALIZING, and no step takes a record from LAUNCHING to
\* TERMINATING.
C25_StartedAt ==
  /\ [](\A n \in domains : ~dom[n].started_at <=> dom[n].state = LAUNCHING)
  /\ [][\A n \in Names :
          /\ (~dom[n].started_at /\ dom'[n].started_at) <=>
                (dom[n].state = LAUNCHING /\ dom'[n].state = HEALTHCHECK_INITIALIZING)
          /\ ~(dom[n].state = LAUNCHING /\ dom'[n].state = TERMINATING)]_vars

\* One record was launched and carries its start time while another record
\* is still LAUNCHING without one.
C25_Witness ==
  \E n, k \in domains :
    /\ dom[n].state = HEALTHCHECK_INITIALIZING /\ dom[n].started_at
    /\ dom[k].state = LAUNCHING /\ ~dom[k].started_at

LaunchErrors == {"ValueError", "libvirtError"}

LaunchFails(n) == start[n] \notin LaunchErrors /\ start'[n] \in LaunchErrors

\* C26: the step in which the launch of a LAUNCHING record fails removes
\* the record from the fleet and sets the change signal, so that the record
\* no longer counts as running; the record never gets a healthcheck task and
\* never returns to the fleet; and every iteration of the reconciler creates
\* as many records as the running ones fall short of the desired size.
C26_LaunchFailure ==
  /\ [][\A n \in Names :
          LaunchFails(n) =>
            /\ n \in domains /\ dom[n].state = LAUNCHING
            /\ n \notin domains'
            /\ state_changed'
            /\ Cardinality(RunningDomains') = Cardinality(RunningDomains) - 1]_vars
  /\ [](\A n \in Names :
          start[n] \in LaunchErrors =>
            n \notin domains /\ n \notin healthcheck_tasks /\ hc[n] = "none")
  /\ [][ReconcileStep /\ Cardinality(RunningDomains) < desired =>
          created' = created + (desired - Cardinality(RunningDomains))]_vars

\* The launch of one of the first two records failed, and the reconciler
\* created a third record for the desired size of two.
C26_Witness ==
  /\ desired = InitialDesired
  /\ max_desired = InitialDesired
  /\ \E n \in 1..InitialDesired : start[n] \in LaunchErrors
  /\ InitialDesired + 1 \in domains
  /\ Cardinality(RunningDomains) = desired

\* A destroy task of n ends with the error of the hypervisor.
DestroyFails(n) ==
  destroying'[n] = destroying[n] - 1 /\ failures' = failures + 1

\* C27: when the hypervisor destroy of a destroy task fails, the record stays
\* in the fleet and is TERMINATING.
C27_DestroyFailureKeeps ==
  [][\A n \in Names :
       DestroyFails(n) => n \in domains' /\ dom'[n].state = TERMINATING]_vars

\* A failed destroy left n in the fleet: n is TERMINATING, the hypervisor
\* still runs its domain, and no destroy task of n is running or waiting to
\* run.
DestroyAbandoned(n) ==
  /\ n \in domains
  /\ n \in hv
  /\ dom[n].state = TERMINATING
  /\ destroying[n] = 0
  /\ \A i \in 1..Len(spawned) : spawned[i] # Task("destroy", n)

\* C28: a record that a failed destroy left TERMINATING gets a new destroy
\* task from the reconciler and leaves the fleet when the hypervisor obeys.
C28_DestroyRetried ==
  \A n \in Names : DestroyAbandoned(n) ~> (n \notin domains)

\* A destroy task of n reaches its hypervisor call: in the event loop, or
\* among the tasks _cleanup gathers.
DestroyIssued(n) ==
  \/ destroying'[n] = destroying[n] + 1
  \/ phase = "serving" /\ phase' = "cleanup" /\ n \in cleanup'.destroy

\* The record of n leaves the fleet and its launch did not fail.
DestroyRemoves(n) == n \in domains /\ n \notin domains' /\ ~LaunchFails(n)

C30_RemovalNotifies ==
  [][\A n \in Names : DestroyRemoves(n) => state_changed']_vars

\* The configure task of n makes a step.
ConfigureSteps(n) ==
  conf[n] = "running" /\ (conf'[n] # "running" \/ tries'[n] # tries[n])

\* C31: a configure task makes at most RetriesConf attempts and none after
\* its first success; a step of the task that is not its last failed attempt
\* leaves the record and the change signal as they were, and the last failed
\* attempt makes the record UNHEALTHY and sets the change signal.
C31_ConfigureRetries ==
  /\ [](\A n \in Names :
          /\ tries[n] <= RetriesConf
          /\ conf[n] = "done" => tries[n] < RetriesConf
          /\ conf[n] = "failed" <=> tries[n] = RetriesConf)
  /\ [][\A n \in Names :
          /\ conf[n] \in {"done", "failed"} => conf'[n] = conf[n] /\ tries'[n] = tries[n]
          /\ ConfigureSteps(n) =>
                IF tries'[n] = RetriesConf
                THEN dom'[n].state = UNHEALTHY /\ n \in domains' /\ state_changed'
                ELSE dom' = dom /\ domains' = domains /\ state_changed' = state_changed]_vars

\* One configure task succeeded after a failed attempt and left its record
\* alone; another failed every attempt and its record is UNHEALTHY.
C31_Witness ==
  \E n, k \in Names :
    /\ conf[n] = "done" /\ tries[n] = RetriesConf - 1 /\ dom[n].state # UNHEALTHY
    /\ conf[k] = "failed" /\ tries[k] = RetriesConf /\ dom[k].state = UNHEALTHY

\* The records of the fleet in LAUNCHING, HEALTHCHECK_INITIALIZING or HEALTHY.
CountedRunning ==
  {n \in domains : dom[n].state \in {LAUNCHING, HEALTHCHECK_INITIALIZING, HEALTHY}}

\* C32: an iteration of the reconciler that finds r records in LAUNCHING,
\* HEALTHCHECK_INITIALIZING or HEALTHY creates desired - r records, all
\* LAUNCHING, with a start task each, when r < desired, and none otherwise.
C32_LaunchShortfall ==
  [][ReconcileStep =>
       LET r == Cardinality(CountedRunning)
           new == (created + 1)..created'
       IN /\ created' = IF r < desired THEN created + (desired - r) ELSE created
          /\ \A n \in new : dom'[n].state = LAUNCHING /\ n \notin domains'
          /\ \A n \in Names :
                n \in new <=> \E i \in 1..Len(spawned') : spawned'[i] = Task("start", n)]_vars

\* The reconciler has just created a third record for the desired size of
\* two while a record that is UNHEALTHY or TERMINATING is still in the fleet.
C32_Witness ==
  /\ ~state_changed
  /\ desired = InitialDesired
  /\ created = InitialDesired + 1
  /\ spawned # <<>>
  /\ Task("start", InitialDesired + 1) = spawned[Len(spawned)]
  /\ \E u \in domains : dom[u].state \in {UNHEALTHY, TERMINATING}
  /\ Cardinality(domains) = InitialDesired

\* Number of destroy tasks of n created and not yet ended.
DestroyTasksOf(n) ==
  destroying[n] + Cardinality({i \in 1..Len(spawned) : spawned[i] = Task("destroy", n)})

\* C33: no name has more than one destroy task at a time.
C33_OneDestroyTask == \A n \in Names : DestroyTasksOf(n) <= 1

\* C34: the network destroy of _cleanup ends only when no destroy task of
\* _cleanup is still awaiting the hypervisor.
C34_NetworkLast ==
  [][cleanup.net = "pending" /\ cleanup'.net # "pending" => cleanup.destroy = {}]_vars

\* C35: at most one launch task has a network creation in flight, and no
\* launch fails at its network creation because the network exists by then.
C35_NetworkCreatedOnce ==
  /\ [](Cardinality({n \in Names : start[n] = "netcreate"}) <= 1)
  /\ [][\A n \in Names :
          LaunchFails(n) => ~(start[n] = "netcreate" /\ network = "present")]_vars

\* The names the tasks of one kind waiting for their first step are for.
SpawnedFor(q, kind) == {q[i].name : i \in {j \in 1..Len(q) : q[j].task = kind}}

\* C36: a set change signal is cleared only by an iteration of the
\* reconciler, that iteration acts on the fleet and the desired size as they
\* are when it clears the signal, and every set signal is followed by such
\* an iteration (unless the model has no names left for the records it
\* would create).
C36_NoLostSignal ==
  /\ [][state_changed /\ ~state_changed' =>
          /\ UnhealthyDomains \subseteq SpawnedFor(spawned', "destroy")
          /\ created' = IF NumToLaunch > 0 THEN created + NumToLaunch ELSE created
          /\ SpawnedFor(spawned', "start") = (created + 1)..created'
          /\ Cardinality(SpawnedFor(spawned', "destroy") \cap HealthyDomains) =
                IF NumToLaunch <= 0 /\ NumToDestroy > 0 THEN NumToDestroy ELSE 0
          /\ domains' = domains /\ desired' = desired]_vars
  /\ (state_changed ~> (~state_changed \/ AtDomainBound))

\* The operator lowered the desired size to one, and the iteration woken by
\* that command has just created the destroy task of a HEALTHY record.
C36_Witness ==
  /\ reply # NoReply
  /\ desired = MIN_SCALE
  /\ ~state_changed
  /\ Cardinality(HealthyDomains) = InitialDesired
  /\ SpawnedFor(spawned, "destroy") \cap HealthyDomains # {}

\* The records of the fleet in one of the states S.
InStates(S) == {n \in domains : dom[n].state \in S}

\* C37: the destroy tasks an iteration of the reconciler creates for records
\* that are not UNHEALTHY are for HEALTHY records, as many as the HEALTHY
\* records exceed the desired size; an iteration that creates start tasks
\* creates none of them; and no destroy task is created for or begins on a
\* record in LAUNCHING or HEALTHCHECK_INITIALIZING.
C37_Victims ==
  [][/\ ReconcileStep =>
          LET healthy == InStates({HEALTHY})
              victims == SpawnedFor(spawned', "destroy") \ InStates({UNHEALTHY})
          IN /\ victims \subseteq healthy
             /\ Cardinality(victims) =
                   IF Cardinality(healthy) > desired
                   THEN Cardinality(healthy) - desired ELSE 0
             /\ SpawnedFor(spawned', "start") # {} => victims = {}
             /\ SpawnedFor(spawned', "destroy") \cap
                   InStates({LAUNCHING, HEALTHCHECK_INITIALIZING}) = {}
     /\ \A n \in Names :
          destroying'[n] > destroying[n] =>
            dom[n].state \notin {LAUNCHING, HEALTHCHECK_INITIALIZING}]_vars

\* With two HEALTHY records and a desired size of one the reconciler has
\* just created exactly one destroy task.
C37_Witness ==
  /\ phase = "serving"
  /\ desired = MIN_SCALE
  /\ Cardinality(InStates({HEALTHY})) = MIN_SCALE + 1
  /\ Len(spawned) = 1
  /\ spawned[1].task = "destroy"
  /\ dom[spawned[1].name].state = HEALTHY

\* C38: a name enters the fleet only in the first step of its start task, so
\* a record that was removed never comes back.
C38_NoReinsertion ==
  [][\A n \in Names :
       (n \notin domains /\ n \in domains') =>
         (spawned # <<>> /\ Head(spawned) = Task("start", n))]_vars

\* C39: every name with a registered healthcheck task is in the fleet, in
\* HEALTHCHECK_INITIALIZING, HEALTHY or UNHEALTHY, and no healthcheck task
\* ends by looking up a missing record.
C39_ProbedRecordsPresent ==
  /\ \A n \in healthcheck_tasks :
       /\ n \in domains
       /\ dom[n].state \in {HEALTHCHECK_INITIALIZING, HEALTHY, UNHEALTHY}
  /\ \A n \in Names : hc[n] # "crashed"

\* C40: an UNHEALTHY record stays UNHEALTHY until it becomes TERMINATING.
C40_UnhealthyIsFinal ==
  [][\A n \in Names :
       dom[n].state = UNHEALTHY => dom'[n].state \in {UNHEALTHY, TERMINATING}]_vars

====
